---- MODULE Spec2Model ----
(***************************************************************************)
(* Notehooks: the time-windowed hooks useDebounce, useThrottle and         *)
(* useThrottleCallback as state machines over a discrete millisecond clock.*)
(*                                                                         *)
(* Each hook instance is independent (no shared state), so a behaviour     *)
(* follows one live hook, chosen by the specification.  A record variable  *)
(* per hook holds the hook's React state and refs under the source's       *)
(* names, and in `timers` the timers the timer service holds for the       *)
(* instance; a second record holds its options; a third holds history that *)
(* the properties read (the program never reads it).                       *)
(*                                                                         *)
(* Timer service: setTimeout(cb, d) registers cb to run at now + max(0,d)  *)
(* and returns a handle; clearTimeout(handle) deregisters it.  A registered*)
(* timer runs at its due time: the clock does not pass a due timer, and a  *)
(* due timer runs before any producer event of that instant.  An effect    *)
(* and the re-render its state updates cause are one atomic step.          *)
(***************************************************************************)
EXTENDS Integers, Sequences, FiniteSets, TLC

\* ---------------------------------------------------------------- bounds
MaxDelay == 3
MaxTime == 9
NumValues == 3
BurstCap == 3
MaxInvokes == 4
NumFns == 2
MaxSeconds == 2
MaxInterval == 2
MaxIntervals == 3
TicksPerSecond == 2
MaxCopies == 3
MaxReconfigs == 1
MaxCalls == 4

Values == 1 .. NumValues
Delays == 0 .. MaxDelay
\* maxWait = 0 stands for "unset": the code tests `if (maxWait && ...)`.
MaxWaits == 0 .. MaxDelay

VARIABLES
    now,            \* Date.now(), the timer service's clock
    epoch,          \* what the clock read when the behaviour began
    hook,           \* which hook instance this behaviour follows
    useDebounce,    \* state of one useDebounce instance
    debounceOpts,   \* its options {delay, leading, maxWait}
    debounceHist,   \* history of the instance, read by the properties only
    useThrottle,    \* state and refs of one useThrottle instance
    throttleOpts,   \* its options {delay, leading, trailing}
    throttleHist,   \* history of the instance
    useThrottleCallback,  \* state and refs of one useThrottleCallback instance
    callbackOpts,   \* its options {delay, leading, trailing}
    callbackHist,   \* history of the instance
    script,         \* calls made so far in the scripted scenario (0 outside it)
    useCountdown,   \* state and refs of one useCountdown instance
    countdownOpts,  \* its options {initialSeconds, autoStart, interval}
    useCopyToClipboard,  \* state of one useCopyToClipboard instance
    clipboardOpts,  \* its options {successDuration, resetAfterDelay}
    reconfigs,      \* renders so far that passed a hook different options
    useAsync,       \* state of one useAsync instance, and its calls in flight
    asyncOpts       \* its options {immediate}

debounceVars == <<useDebounce, debounceOpts, debounceHist>>
throttleVars == <<useThrottle, throttleOpts, throttleHist>>
callbackVars == <<useThrottleCallback, callbackOpts, callbackHist>>
countdownVars == <<useCountdown, countdownOpts>>
clipboardVars == <<useCopyToClipboard, clipboardOpts>>
\* The hooks outside the time-windowed family
\* What the hooks above never touch
asyncVars == <<useAsync, asyncOpts>>
laterVars == <<reconfigs, asyncVars>>
otherVars == <<countdownVars, clipboardVars, laterVars>>
vars == <<now, epoch, hook, script, debounceVars, throttleVars, callbackVars,
          otherVars>>

\* ------------------------------------------------------------ timer service
Max(a, b) == IF a >= b THEN a ELSE b
Min(a, b) == IF a <= b THEN a ELSE b

\* `undefined`, where a handle may be held
NoTimer == [kind |-> "none", due |-> 0, val |-> 0]

\* The handle setTimeout(cb, d) returns at time t; cb is the callback `kind`
\* closing over val.  A negative delay is treated as 0 by the timer service.
setTimeout(kind, t, d, val) ==
    [kind |-> kind, due |-> t + Max(0, d), val |-> val]

\* The registered timers after clearTimeout(handle)
clearTimeout(timers, handle) == timers \ {handle}

\* `if (ref.current)`: a handle is truthy, undefined is not
Truthy(handle) == handle # NoTimer

\* Registered timers whose time has come
DueTimers(s) == {tm \in s.timers : tm.due <= now}

\* =========================================================== useDebounce
\* debounceHist, kept beside the hook for the properties:
\*   updAt       time of the last update(v), -1 before the first
\*   burstN      updates in the current burst (an update less than `delay`
\*               after the previous one continues the burst), capped
\*   burstStart  time of the burst's first update
\*   writes      setDebouncedValue calls since the last update, capped
\*   burstWrites setDebouncedValue calls since the burst's first update
\*   changes     changes of debouncedValue since the burst's first update
\*   out0        debouncedValue when the burst began
DebounceNoHist ==
    [updAt |-> -1, burstN |-> 0, burstStart |-> -1, writes |-> 0,
     burstWrites |-> 0, changes |-> 0, out0 |-> 0]

DebounceOff ==
    /\ useDebounce = [mounted |-> FALSE, value |-> 0, debouncedValue |-> 0,
                      isFirstCall |-> TRUE, timer |-> NoTimer,
                      maxWaitTimer |-> NoTimer, timers |-> {},
                      unmounted |-> FALSE]
    /\ debounceOpts = [delay |-> 0, leading |-> FALSE, maxWait |-> 0]
    /\ debounceHist = DebounceNoHist

\* useState(value), useState(true): the first render, before any effect
DebounceInit ==
    /\ \E v \in Values :
        useDebounce = [mounted |-> FALSE, value |-> v, debouncedValue |-> v,
                       isFirstCall |-> TRUE, timer |-> NoTimer,
                       maxWaitTimer |-> NoTimer, timers |-> {},
                       unmounted |-> FALSE]
    /\ debounceOpts \in [delay : Delays, leading : BOOLEAN, maxWait : MaxWaits]
    /\ debounceHist = DebounceNoHist

\* (mutant: the quiescence timer is registered with no delay)
DebounceEffectNoDelay(s, o, t) ==
    IF o.leading /\ s.isFirstCall
    THEN [s EXCEPT !.debouncedValue = s.value, !.isFirstCall = FALSE,
                   !.timer = NoTimer, !.maxWaitTimer = NoTimer]
    ELSE LET timer == setTimeout("timer", t, 0, s.value)
             maxWaitTimer ==
                 IF o.maxWait # 0 /\ ~s.isFirstCall
                 THEN setTimeout("maxWait", t, o.maxWait, s.value)
                 ELSE NoTimer
         IN  [s EXCEPT !.timer = timer,
                       !.maxWaitTimer = maxWaitTimer,
                       !.timers = (@ \cup {timer, maxWaitTimer}) \ {NoTimer}]

\* The first effect (deps value, delay, leading, maxWait, isFirstCall) run on
\* state s at time t; timer and maxWaitTimer are the handles its cleanup
\* closes over (none when it returned early, without a cleanup).
DebounceEffect(s, o, t) ==
    IF o.leading /\ s.isFirstCall
    THEN [s EXCEPT !.debouncedValue = s.value, !.isFirstCall = FALSE,
                   !.timer = NoTimer, !.maxWaitTimer = NoTimer]
    ELSE LET timer == setTimeout("timer", t, o.delay, s.value)
             maxWaitTimer ==
                 IF o.maxWait # 0 /\ ~s.isFirstCall
                 THEN setTimeout("maxWait", t, o.maxWait, s.value)
                 ELSE NoTimer
         IN  [s EXCEPT !.timer = timer,
                       !.maxWaitTimer = maxWaitTimer,
                       !.timers = (@ \cup {timer, maxWaitTimer}) \ {NoTimer}]

\* The second effect (deps value, leading): clears the first-call flag
DebounceResetFirstCall(s, o) ==
    IF ~o.leading THEN [s EXCEPT !.isFirstCall = FALSE] ELSE s

\* (mutant: the cleanup leaves the quiescence timer registered)
DebounceCleanupKeepsTimer(s) ==
    [s EXCEPT !.timers = clearTimeout(@, s.maxWaitTimer)]

\* The cleanup the first effect returned: clearTimeout(timer), and
\* clearTimeout(maxWaitTimer) if there is one
DebounceCleanup(s) ==
    [s EXCEPT !.timers = clearTimeout(clearTimeout(@, s.timer),
                                      s.maxWaitTimer)]

\* One commit in which `value` (or the mount) made both effects run: the
\* cleanup of the previous run, then the effects on the rendered state s; if
\* they changed isFirstCall the hook re-renders and the first effect
\* (isFirstCall is a dep) is cleaned up and runs once more.
DebounceCommit(s, o, t) ==
    LET e1 == DebounceEffect(DebounceCleanup(s), o, t)
        e2 == DebounceResetFirstCall(e1, o)
    IN  IF e2.isFirstCall # s.isFirstCall
        THEN DebounceEffect(DebounceCleanup(e2), o, t)
        ELSE e2

DebounceNoTimerDue == DueTimers(useDebounce) = {}

DebounceQuiet == useDebounce.timers = {}

\* The component mounts: first commit.
DebounceMount ==
    /\ hook = "useDebounce"
    /\ ~useDebounce.mounted
    /\ useDebounce' = DebounceCommit([useDebounce EXCEPT !.mounted = TRUE],
                                     debounceOpts, now)
    /\ UNCHANGED <<otherVars, now, epoch, hook, script, debounceOpts, debounceHist,
                   throttleVars, callbackVars>>

\* update(v): the caller renders the hook with a new value.  A render with
\* the same value leaves every dep unchanged and runs no effect.
DebounceUpdate(v) ==
    /\ hook = "useDebounce"
    /\ useDebounce.mounted
    /\ ~useDebounce.unmounted
    /\ DebounceNoTimerDue
    /\ v # useDebounce.value
    /\ useDebounce' = DebounceCommit([useDebounce EXCEPT !.value = v],
                                     debounceOpts, now)
    /\ LET h == debounceHist
           inBurst == h.updAt >= 0 /\ now - h.updAt < debounceOpts.delay
       IN debounceHist' =
            [updAt       |-> now,
             burstN      |-> IF inBurst THEN Min(h.burstN + 1, BurstCap) ELSE 1,
             burstStart  |-> IF inBurst THEN h.burstStart ELSE now,
             writes      |-> 0,
             burstWrites |-> IF inBurst THEN h.burstWrites ELSE 0,
             changes     |-> IF inBurst THEN h.changes ELSE 0,
             out0        |-> IF inBurst THEN h.out0
                                        ELSE useDebounce.debouncedValue]
    /\ UNCHANGED <<otherVars, now, epoch, hook, script, debounceOpts, throttleVars,
                   callbackVars>>

\* History after a setDebouncedValue(val)
DebounceWrote(val) ==
    [debounceHist EXCEPT
        !.writes = Min(@ + 1, BurstCap),
        !.burstWrites = Min(@ + 1, BurstCap),
        !.changes = IF val # useDebounce.debouncedValue
                    THEN Min(@ + 1, BurstCap) ELSE @]

\* The quiescence timer's callback: setDebouncedValue(value),
\* setIsFirstCall(false).  If that changes isFirstCall the first effect,
\* which depends on it, is cleaned up and runs again.
DebounceTimerCallback(s, o, tm, t) ==
    LET s1 == [s EXCEPT !.debouncedValue = tm.val,
                        !.isFirstCall = FALSE,
                        !.timers = @ \ {tm}]
    IN  IF s.isFirstCall THEN DebounceEffect(DebounceCleanup(s1), o, t)
                         ELSE s1

\* The max-wait timer's callback: setDebouncedValue(value)
DebounceMaxWaitCallback(s, tm) ==
    [s EXCEPT !.debouncedValue = tm.val, !.timers = @ \ {tm}]

DebounceTimerFire ==
    /\ hook = "useDebounce"
    /\ \E tm \in DueTimers(useDebounce) :
        /\ tm.kind = "timer"
        /\ useDebounce' = DebounceTimerCallback(useDebounce, debounceOpts,
                                                tm, now)
        /\ debounceHist' = DebounceWrote(tm.val)
    /\ UNCHANGED <<otherVars, now, epoch, hook, script, debounceOpts, throttleVars,
                   callbackVars>>

DebounceMaxWaitFire ==
    /\ hook = "useDebounce"
    /\ \E tm \in DueTimers(useDebounce) :
        /\ tm.kind = "maxWait"
        /\ useDebounce' = DebounceMaxWaitCallback(useDebounce, tm)
        /\ debounceHist' = DebounceWrote(tm.val)
    /\ UNCHANGED <<otherVars, now, epoch, hook, script, debounceOpts, throttleVars,
                   callbackVars>>

\* The component unmounts: React runs the cleanup of the first effect's last
\* run.  A torn-down hook takes no further update.
DebounceUnmount ==
    /\ hook = "useDebounce"
    /\ useDebounce.mounted
    /\ ~useDebounce.unmounted
    /\ useDebounce' = [DebounceCleanup(useDebounce) EXCEPT !.unmounted = TRUE]
    /\ UNCHANGED <<otherVars, now, epoch, hook, script, debounceOpts, debounceHist,
                   throttleVars, callbackVars>>

\* =========================================================== useThrottle
\* throttleHist / callbackHist, kept beside the hooks for the properties:
\*   seq        updates / invokes made so far, capped (an invoke's arguments
\*              are modelled by its number, so every argument list is distinct)
\*   emitAt     time of the last emission (setThrottledValue call, or call of
\*              the wrapped function), -1 before the first
\*   prevEmitAt time of the emission before that
\*   lastVal    value / arguments of the last emission
\*   lastKind   "leading", "trailing" or "flush"
\*   emitted    every value / argument list emitted so far
\*   pendingAt  time the value now awaiting the trailing timer was supplied
\*   supplied   for a trailing emission, the time its value had been supplied
\*   again      whether something already emitted was emitted once more
NoHist ==
    [seq |-> 0, emitAt |-> -1, prevEmitAt |-> -1, lastVal |-> 0,
     lastKind |-> "none", emitted |-> {}, pendingAt |-> -1, supplied |-> -1,
     again |-> FALSE]

Emit(h, val, kind, t) ==
    [h EXCEPT !.prevEmitAt = h.emitAt, !.emitAt = t, !.lastVal = val,
              !.lastKind = kind, !.emitted = @ \cup {val},
              !.again = @ \/ val \in h.emitted,
              !.supplied = IF kind = "leading" THEN t ELSE h.pendingAt]

\* useState(value), useRef(0), useRef(undefined), useRef(true); cleanup says
\* whether the last run of the effect returned its cleanup function,
\* unmounted whether the component has been torn down
ThrottleFresh(v) ==
    [mounted |-> FALSE, value |-> v, throttledValue |-> v,
     lastExecutedRef |-> 0, timeoutRef |-> NoTimer, isFirstCallRef |-> TRUE,
     cleanup |-> FALSE, timers |-> {}, unmounted |-> FALSE]

ThrottleOff ==
    /\ useThrottle = ThrottleFresh(0)
    /\ throttleOpts = [delay |-> 0, leading |-> FALSE, trailing |-> FALSE]
    /\ throttleHist = NoHist

ThrottleInit ==
    /\ \E v \in Values : useThrottle = ThrottleFresh(v)
    /\ throttleOpts \in [delay : Delays, leading : BOOLEAN, trailing : BOOLEAN]
    /\ throttleHist = NoHist

\* The cleanup returned by the previous run of the effect, if it returned
\* one: clearTimeout(timeoutRef.current) if there is a handle, which the
\* reference keeps.
ThrottleCleanup(s) ==
    IF s.cleanup /\ Truthy(s.timeoutRef)
    THEN [s EXCEPT !.timers = clearTimeout(@, s.timeoutRef)]
    ELSE s

\* Whether the effect takes its leading branch at time t
ThrottleLeads(s, o, t) ==
    \/ o.leading /\ s.isFirstCallRef
    \/ o.leading /\ t - s.lastExecutedRef >= o.delay

\* (mutant: every update restarts the trailing countdown at `delay`)
ThrottleEffectRestartsCountdown(s, o, t) ==
    IF ThrottleLeads(s, o, t)
    THEN [s EXCEPT !.throttledValue = s.value,
                   !.lastExecutedRef = t,
                   !.isFirstCallRef = FALSE,
                   !.timers = clearTimeout(@, s.timeoutRef),
                   !.timeoutRef = NoTimer,
                   !.cleanup = FALSE]
    ELSE IF o.trailing
    THEN LET timeout == setTimeout("trailing", t, o.delay, s.value)
         IN  [s EXCEPT !.timers = clearTimeout(@, s.timeoutRef)
                                      \cup {timeout},
                       !.timeoutRef = timeout,
                       !.isFirstCallRef = FALSE,
                       !.cleanup = TRUE]
    ELSE [s EXCEPT !.isFirstCallRef = FALSE, !.cleanup = TRUE]

\* The effect (deps value, delay, leading, trailing) run on state s at time t
ThrottleEffect(s, o, t) ==
    LET timeSinceLastExecution == t - s.lastExecutedRef
        remainingDelay == o.delay - timeSinceLastExecution
    IN  IF ThrottleLeads(s, o, t)
        THEN [s EXCEPT !.throttledValue = s.value,
                       !.lastExecutedRef = t,
                       !.isFirstCallRef = FALSE,
                       !.timers = clearTimeout(@, s.timeoutRef),
                       !.timeoutRef = NoTimer,
                       !.cleanup = FALSE]
        ELSE IF o.trailing
        THEN LET timeout == setTimeout("trailing", t, remainingDelay, s.value)
             IN  [s EXCEPT !.timers = clearTimeout(@, s.timeoutRef)
                                          \cup {timeout},
                           !.timeoutRef = timeout,
                           !.isFirstCallRef = FALSE,
                           !.cleanup = TRUE]
        ELSE [s EXCEPT !.isFirstCallRef = FALSE, !.cleanup = TRUE]

\* History of one run of the effect for a value supplied at time t
ThrottleRan(s, o, h, t) ==
    LET h1 == [h EXCEPT !.seq = Min(@ + 1, BurstCap)]
    IN  IF ThrottleLeads(s, o, t) THEN Emit(h1, s.value, "leading", t)
        ELSE IF o.trailing THEN [h1 EXCEPT !.pendingAt = t]
        ELSE h1

\* The first render's effect
ThrottleMountStep ==
    LET s == ThrottleCleanup([useThrottle EXCEPT !.mounted = TRUE])
    IN  /\ useThrottle' = ThrottleEffect(s, throttleOpts, now)
        /\ throttleHist' = ThrottleRan(s, throttleOpts, throttleHist, now)

\* A render with a new value: the previous cleanup, then the effect
ThrottleUpdateStep(v) ==
    LET s == ThrottleCleanup([useThrottle EXCEPT !.value = v])
    IN  /\ useThrottle' = ThrottleEffect(s, throttleOpts, now)
        /\ throttleHist' = ThrottleRan(s, throttleOpts, throttleHist, now)

\* The trailing timer's callback: setThrottledValue(value),
\* lastExecutedRef.current = Date.now(), timeoutRef.current = undefined
ThrottleTimerCallback(s, tm, t) ==
    [s EXCEPT !.throttledValue = tm.val,
              !.lastExecutedRef = t,
              !.timeoutRef = NoTimer,
              !.timers = @ \ {tm}]

\* The component mounts: the effect runs for the first time.
ThrottleMount ==
    /\ hook = "useThrottle"
    /\ ~useThrottle.mounted
    /\ ThrottleMountStep
    /\ UNCHANGED <<otherVars, now, epoch, hook, script, throttleOpts, debounceVars,
                   callbackVars>>

\* update(v): the caller renders the hook with a new value.
ThrottleUpdate(v) ==
    /\ hook = "useThrottle"
    /\ useThrottle.mounted
    /\ ~useThrottle.unmounted
    /\ DueTimers(useThrottle) = {}
    /\ v # useThrottle.value
    /\ ThrottleUpdateStep(v)
    /\ UNCHANGED <<otherVars, now, epoch, hook, script, throttleOpts, debounceVars,
                   callbackVars>>

ThrottleTimerFire ==
    /\ hook = "useThrottle"
    /\ \E tm \in DueTimers(useThrottle) :
        /\ useThrottle' = ThrottleTimerCallback(useThrottle, tm, now)
        /\ throttleHist' = Emit(throttleHist, tm.val, "trailing", now)
    /\ UNCHANGED <<otherVars, now, epoch, hook, script, throttleOpts, debounceVars,
                   callbackVars>>

\* The component unmounts: React runs the cleanup the effect's last run
\* returned, if it returned one.
ThrottleUnmount ==
    /\ hook = "useThrottle"
    /\ useThrottle.mounted
    /\ ~useThrottle.unmounted
    /\ useThrottle' = [ThrottleCleanup(useThrottle) EXCEPT !.unmounted = TRUE]
    /\ UNCHANGED <<otherVars, now, epoch, hook, script, throttleOpts, throttleHist,
                   debounceVars, callbackVars>>

\* =================================================== useThrottleCallback
\* callbackHist has, besides the fields above:
\*   cancelled  the argument lists that cancel() discarded while pending
\*   flushRun   flush() calls since the last invoke, capped at 2
\*   fn         the function reference the last emission called, 0 before
\*   schedFn    the function reference that was current when the pending
\*              arguments were stored
\*   escaped    where the last exception of the wrapped function went:
\*              "caller", "timer service", or "none" if it never threw
CallbackNoHist ==
    NoHist @@ [cancelled |-> {}, flushRun |-> 0, fn |-> 0, schedFn |-> 0,
               escaped |-> "none"]

\* useState(false), useRef(0), useRef(undefined), useRef(undefined),
\* useRef(callback); pendingArgsRef 0 is `undefined`; the function references
\* the renders supply are numbered, the first render's is 1
CallbackFresh ==
    [isThrottled |-> FALSE, lastExecutedRef |-> 0, timeoutRef |-> NoTimer,
     pendingArgsRef |-> 0, callbackRef |-> 1, timers |-> {},
     unmounted |-> FALSE]

CallbackOff ==
    /\ useThrottleCallback = CallbackFresh
    /\ callbackOpts = [delay |-> 0, leading |-> FALSE, trailing |-> FALSE]
    /\ callbackHist = CallbackNoHist

CallbackInit ==
    /\ useThrottleCallback = CallbackFresh
    /\ callbackOpts \in [delay : Delays, leading : BOOLEAN, trailing : BOOLEAN]
    /\ callbackHist = CallbackNoHist

\* (mutant: the leading branch ignores the window)
CallbackLeadsIgnoringWindow(s, o, t) ==
    o.leading

\* Whether throttledCallback takes its leading branch at time t
CallbackLeads(s, o, t) ==
    o.leading /\ t - s.lastExecutedRef >= o.delay

\* throttledCallback(...args) at time t
ThrottledCallback(s, o, args, t) ==
    LET timeSinceLastExecution == t - s.lastExecutedRef
        remainingDelay == o.delay - timeSinceLastExecution
    IN  IF CallbackLeads(s, o, t)
        THEN [s EXCEPT !.lastExecutedRef = t,
                       !.isThrottled = FALSE,
                       !.timers = clearTimeout(@, s.timeoutRef),
                       !.timeoutRef = NoTimer,
                       !.pendingArgsRef = 0]
        ELSE IF o.trailing
        THEN LET timeout == setTimeout("trailing", t,
                                       Max(0, remainingDelay), 0)
             IN  [s EXCEPT !.pendingArgsRef = args,
                           !.isThrottled = TRUE,
                           !.timers = clearTimeout(@, s.timeoutRef)
                                          \cup {timeout},
                           !.timeoutRef = timeout]
        ELSE s

\* (mutant: the timer's callback leaves isThrottled as it is)
CallbackTimerCallbackStaysThrottled(s, tm, t) ==
    [s EXCEPT !.lastExecutedRef = IF s.pendingArgsRef # 0 THEN t ELSE @,
              !.pendingArgsRef = 0,
              !.timeoutRef = NoTimer,
              !.timers = @ \ {tm}]

\* (mutant: the trailing call does not re-anchor the window)
CallbackTimerCallbackNoAnchor(s, tm, t) ==
    [s EXCEPT !.pendingArgsRef = 0,
              !.timeoutRef = NoTimer,
              !.isThrottled = FALSE,
              !.timers = @ \ {tm}]

\* The trailing timer's callback at time t: it reads pendingArgsRef when it
\* runs
CallbackTimerCallback(s, tm, t) ==
    [s EXCEPT !.lastExecutedRef = IF s.pendingArgsRef # 0 THEN t ELSE @,
              !.pendingArgsRef = 0,
              !.timeoutRef = NoTimer,
              !.isThrottled = FALSE,
              !.timers = @ \ {tm}]

\* (mutant: cancel() leaves the timer registered and the arguments stored)
CancelKeepsTimer(s) ==
    [s EXCEPT !.isThrottled = FALSE]

\* cancel()
Cancel(s) ==
    [s EXCEPT !.timers = clearTimeout(@, s.timeoutRef),
              !.timeoutRef = NoTimer,
              !.pendingArgsRef = 0,
              !.isThrottled = FALSE]

\* Whether flush() finds a pending execution
FlushFinds(s) == Truthy(s.timeoutRef) /\ s.pendingArgsRef # 0

\* (mutant: flush() invokes but leaves the timer registered)
FlushKeepsTimer(s, t) ==
    IF FlushFinds(s)
    THEN [s EXCEPT !.timeoutRef = NoTimer,
                   !.lastExecutedRef = t,
                   !.pendingArgsRef = 0,
                   !.isThrottled = FALSE]
    ELSE s

\* (mutant: flush() clears the timer but keeps the handle and the arguments)
FlushKeepsPending(s, t) ==
    IF FlushFinds(s)
    THEN [s EXCEPT !.timers = clearTimeout(@, s.timeoutRef),
                   !.lastExecutedRef = t,
                   !.isThrottled = FALSE]
    ELSE s

\* (mutant: flush() does not test whether anything is pending)
FlushWithoutPending(s, t) ==
    [s EXCEPT !.timers = clearTimeout(@, s.timeoutRef),
              !.timeoutRef = NoTimer,
              !.lastExecutedRef = t,
              !.pendingArgsRef = 0,
              !.isThrottled = FALSE]

\* flush() at time t
Flush(s, t) ==
    IF FlushFinds(s)
    THEN [s EXCEPT !.timers = clearTimeout(@, s.timeoutRef),
                   !.timeoutRef = NoTimer,
                   !.lastExecutedRef = t,
                   !.pendingArgsRef = 0,
                   !.isThrottled = FALSE]
    ELSE s

\* (mutant: the function is the one that was current at schedule time)
CallbackResolveCaptured(s, h, kind) ==
    IF kind = "leading" THEN s.callbackRef ELSE h.schedFn

\* callbackRef.current, read where the wrapped function is called
CallbackResolve(s, h, kind) ==
    s.callbackRef

\* History of a call of the wrapped function that returned
CallbackEmit(s, h, val, kind, t) ==
    [Emit(h, val, kind, t) EXCEPT !.fn = CallbackResolve(s, h, kind)]

\* One call of the throttled function, with its history
CallbackInvokeStep(args) ==
    LET s == useThrottleCallback
        h == [callbackHist EXCEPT !.seq = args, !.flushRun = 0]
    IN  /\ useThrottleCallback' = ThrottledCallback(s, callbackOpts, args, now)
        /\ callbackHist' =
             IF CallbackLeads(s, callbackOpts, now)
             THEN CallbackEmit(s, h, args, "leading", now)
             ELSE IF callbackOpts.trailing
             THEN [h EXCEPT !.pendingAt = now, !.schedFn = s.callbackRef]
             ELSE h

\* The caller invokes the throttled function; its arguments are its number.
CallbackInvoke ==
    /\ hook = "useThrottleCallback"
    /\ ~useThrottleCallback.unmounted
    /\ DueTimers(useThrottleCallback) = {}
    /\ callbackHist.seq < MaxInvokes
    /\ CallbackInvokeStep(callbackHist.seq + 1)
    /\ UNCHANGED <<otherVars, now, epoch, hook, script, callbackOpts, debounceVars,
                   throttleVars>>

CallbackTimerFire ==
    /\ hook = "useThrottleCallback"
    /\ \E tm \in DueTimers(useThrottleCallback) :
        useThrottleCallback' =
            CallbackTimerCallback(useThrottleCallback, tm, now)
    /\ callbackHist' =
         IF useThrottleCallback.pendingArgsRef # 0
         THEN CallbackEmit(useThrottleCallback, callbackHist,
                           useThrottleCallback.pendingArgsRef,
                           "trailing", now)
         ELSE callbackHist
    /\ UNCHANGED <<otherVars, now, epoch, hook, script, callbackOpts, debounceVars,
                   throttleVars>>

CallbackCancel ==
    /\ hook = "useThrottleCallback"
    /\ ~useThrottleCallback.unmounted
    /\ DueTimers(useThrottleCallback) = {}
    /\ useThrottleCallback' = Cancel(useThrottleCallback)
    /\ callbackHist' =
         [callbackHist EXCEPT
            !.cancelled = IF useThrottleCallback.pendingArgsRef # 0
                          THEN @ \cup {useThrottleCallback.pendingArgsRef}
                          ELSE @]
    /\ UNCHANGED <<otherVars, now, epoch, hook, script, callbackOpts, debounceVars,
                   throttleVars>>

CallbackFlush ==
    /\ hook = "useThrottleCallback"
    /\ ~useThrottleCallback.unmounted
    /\ DueTimers(useThrottleCallback) = {}
    /\ useThrottleCallback' = Flush(useThrottleCallback, now)
    /\ callbackHist' =
         LET h == [callbackHist EXCEPT !.flushRun = Min(@ + 1, 2)]
         IN  IF FlushFinds(useThrottleCallback)
             THEN CallbackEmit(useThrottleCallback, h,
                               useThrottleCallback.pendingArgsRef,
                               "flush", now)
             ELSE h
    /\ UNCHANGED <<otherVars, now, epoch, hook, script, callbackOpts, debounceVars,
                   throttleVars>>

\* (mutant: the unmount cleanup clears nothing)
CallbackCleanupKeepsTimer(s) == s

\* The cleanup of the mount effect: clearTimeout(timeoutRef.current) if
\* there is a handle, which the reference keeps
CallbackCleanup(s) ==
    IF Truthy(s.timeoutRef)
    THEN [s EXCEPT !.timers = clearTimeout(@, s.timeoutRef)]
    ELSE s

\* The component unmounts.  The functions of a torn-down hook are not called
\* any more.
CallbackUnmount ==
    /\ hook = "useThrottleCallback"
    /\ ~useThrottleCallback.unmounted
    /\ useThrottleCallback' =
         [CallbackCleanup(useThrottleCallback) EXCEPT !.unmounted = TRUE]
    /\ UNCHANGED <<otherVars, now, epoch, hook, script, callbackOpts, callbackHist,
                   debounceVars, throttleVars>>

\* A render that supplies a new function: callbackRef.current = callback
CallbackRender ==
    /\ hook = "useThrottleCallback"
    /\ ~useThrottleCallback.unmounted
    /\ DueTimers(useThrottleCallback) = {}
    /\ useThrottleCallback.callbackRef < NumFns
    /\ useThrottleCallback' =
         [useThrottleCallback EXCEPT !.callbackRef = @ + 1]
    /\ UNCHANGED <<otherVars, now, epoch, hook, script, callbackOpts, callbackHist,
                   debounceVars, throttleVars>>

\* The wrapped function throws.  No call site is inside a try block, so the
\* exception leaves the running function at the call and goes to whoever
\* called that function: the caller of throttledCallback / flush, or the
\* timer service that ran the timer's callback.
Escapes(site) ==
    IF site = "timer" THEN "timer service" ELSE "caller"

\* throttledCallback(...args) at time t when the wrapped function throws:
\* only the leading branch calls it, before it changes anything
ThrottledCallbackThrows(s, o, args, t) == s

\* flush() when the wrapped function throws: the timer is already cleared,
\* the statements after the call do not run
FlushThrows(s, t) ==
    [s EXCEPT !.timers = clearTimeout(@, s.timeoutRef),
              !.timeoutRef = NoTimer]

\* The trailing timer's callback when the wrapped function throws: the
\* statements after the call do not run
CallbackTimerCallbackThrows(s, tm, t) ==
    [s EXCEPT !.timers = @ \ {tm}]

CallbackInvokeThrows ==
    /\ hook = "useThrottleCallback"
    /\ ~useThrottleCallback.unmounted
    /\ DueTimers(useThrottleCallback) = {}
    /\ callbackHist.seq < MaxInvokes
    /\ CallbackLeads(useThrottleCallback, callbackOpts, now)
    /\ useThrottleCallback' =
         ThrottledCallbackThrows(useThrottleCallback, callbackOpts,
                                 callbackHist.seq + 1, now)
    /\ callbackHist' = [callbackHist EXCEPT !.seq = @ + 1, !.flushRun = 0,
                                            !.escaped = Escapes("invoke")]
    /\ UNCHANGED <<otherVars, now, epoch, hook, script, callbackOpts, debounceVars,
                   throttleVars>>

CallbackFlushThrows ==
    /\ hook = "useThrottleCallback"
    /\ ~useThrottleCallback.unmounted
    /\ DueTimers(useThrottleCallback) = {}
    /\ FlushFinds(useThrottleCallback)
    /\ useThrottleCallback' = FlushThrows(useThrottleCallback, now)
    /\ callbackHist' = [callbackHist EXCEPT !.flushRun = Min(@ + 1, 2),
                                            !.escaped = Escapes("flush")]
    /\ UNCHANGED <<otherVars, now, epoch, hook, script, callbackOpts, debounceVars,
                   throttleVars>>

CallbackTimerFireThrows ==
    /\ hook = "useThrottleCallback"
    /\ useThrottleCallback.pendingArgsRef # 0
    /\ \E tm \in DueTimers(useThrottleCallback) :
        useThrottleCallback' =
            CallbackTimerCallbackThrows(useThrottleCallback, tm, now)
    /\ callbackHist' = [callbackHist EXCEPT !.escaped = Escapes("timer")]
    /\ UNCHANGED <<otherVars, now, epoch, hook, script, callbackOpts, debounceVars,
                   throttleVars>>

\* ========================================================== useCountdown
\* Durations are counted in clock units of which TicksPerSecond make a
\* second (the code counts milliseconds, 1000 to the second).
CountdownOptions ==
    [initialSeconds : 0 .. MaxSeconds, autoStart : BOOLEAN,
     interval : 1 .. MaxInterval]

\* getInitialTime() without a targetDate: initialSeconds * 1000
getInitialTime(o) == o.initialSeconds * TicksPerSecond

\* The handle setInterval returns is the number id; the timer service runs
\* the callback every `interval`, first at t + interval
setInterval(id, t, interval) ==
    [kind |-> "interval", due |-> t + interval, val |-> id]

clearInterval(timers, id) == {tm \in timers : tm.val # id}

\* useState(getInitialTime), useState(autoStart), useState(false),
\* useRef(null) (here 0).  deps are the values of isActive and isCompleted
\* the main effect last ran with, cleanup whether that run returned its
\* cleanup, nextId the handle the next setInterval returns.
CountdownFresh(o) ==
    [mounted |-> FALSE, timeLeft |-> getInitialTime(o),
     isActive |-> o.autoStart, isCompleted |-> FALSE, intervalRef |-> 0,
     deps |-> <<o.autoStart, FALSE>>, cleanup |-> FALSE, nextId |-> 1,
     timers |-> {}]

CountdownOff ==
    /\ countdownOpts = [initialSeconds |-> 0, autoStart |-> FALSE,
                        interval |-> 1]
    /\ useCountdown = CountdownFresh(countdownOpts)

CountdownInit ==
    /\ countdownOpts \in CountdownOptions
    /\ useCountdown = CountdownFresh(countdownOpts)

\* What the hook returns: timeLeft in whole seconds, isActive, isCompleted
CountdownReturn(s) ==
    [timeLeft |-> s.timeLeft \div TicksPerSecond, isActive |-> s.isActive,
     isCompleted |-> s.isCompleted]

\* The effect on [getInitialTime, autoStart]: it runs at the mount
CountdownResetEffect(s, o) ==
    LET newTime == getInitialTime(o)
    IN  [s EXCEPT !.timeLeft = newTime,
                  !.isCompleted = (newTime = 0),
                  !.isActive = IF o.autoStart /\ newTime > 0 THEN TRUE ELSE @]

\* The cleanup the main effect returned, if it returned one
CountdownCleanup(s) ==
    IF s.cleanup /\ s.intervalRef # 0
    THEN [s EXCEPT !.timers = clearInterval(@, s.intervalRef)]
    ELSE s

\* The main effect (deps isActive, isCompleted, targetDate, interval) run at
\* time t by a render that saw isActive and isCompleted
CountdownEffect(s, o, isActive, isCompleted, t) ==
    IF ~isActive \/ isCompleted
    THEN [s EXCEPT !.timers = IF s.intervalRef # 0
                              THEN clearInterval(@, s.intervalRef) ELSE @,
                   !.intervalRef = 0,
                   !.cleanup = FALSE,
                   !.deps = <<isActive, isCompleted>>]
    ELSE [s EXCEPT !.timers = @ \cup {setInterval(s.nextId, t, o.interval)},
                   !.intervalRef = s.nextId,
                   !.nextId = @ + 1,
                   !.cleanup = TRUE,
                   !.deps = <<isActive, isCompleted>>]

\* The render that follows state updates: the main effect is cleaned up and
\* runs again if isActive or isCompleted changed
CountdownCommit(s, o, t) ==
    IF <<s.isActive, s.isCompleted>> # s.deps
    THEN CountdownEffect(CountdownCleanup(s), o, s.isActive, s.isCompleted, t)
    ELSE s

\* The first render: both effects run with the first render's state, then
\* the reset effect's state updates are rendered
CountdownMounted(s, o, t) ==
    LET ran == CountdownEffect([s EXCEPT !.mounted = TRUE], o,
                               s.isActive, s.isCompleted, t)
    IN  CountdownCommit(CountdownResetEffect(ran, o), o, t)

\* The interval's callback: the setTimeLeft updater
CountdownTick(s, o) ==
    LET newTime == Max(0, s.timeLeft - o.interval)
    IN  [s EXCEPT !.timeLeft = newTime,
                  !.isActive = IF newTime = 0 THEN FALSE ELSE @,
                  !.isCompleted = IF newTime = 0 THEN TRUE ELSE @]

\* start(), pause(), reset()
CountdownStarted(s) ==
    IF ~s.isCompleted THEN [s EXCEPT !.isActive = TRUE] ELSE s

CountdownPaused(s) == [s EXCEPT !.isActive = FALSE]

CountdownReset(s, o) ==
    LET newTime == getInitialTime(o)
    IN  [s EXCEPT !.timeLeft = newTime,
                  !.isCompleted = (newTime = 0),
                  !.isActive = o.autoStart /\ newTime > 0]

CountdownMount ==
    /\ hook = "useCountdown"
    /\ ~useCountdown.mounted
    /\ useCountdown' = CountdownMounted(useCountdown, countdownOpts, now)
    /\ UNCHANGED <<laterVars, now, epoch, hook, script, debounceVars, throttleVars,
                   callbackVars, countdownOpts, clipboardVars>>

\* A caller's start(), pause() or reset(); the hook calls setInterval at most
\* MaxIntervals times
CountdownCall(after) ==
    /\ hook = "useCountdown"
    /\ useCountdown.mounted
    /\ DueTimers(useCountdown) = {}
    /\ useCountdown.nextId <= MaxIntervals
    /\ useCountdown' = CountdownCommit(after, countdownOpts, now)
    /\ UNCHANGED <<laterVars, now, epoch, hook, script, debounceVars, throttleVars,
                   callbackVars, countdownOpts, clipboardVars>>

CountdownStart == CountdownCall(CountdownStarted(useCountdown))

CountdownPause == CountdownCall(CountdownPaused(useCountdown))

CountdownResetCall == CountdownCall(CountdownReset(useCountdown, countdownOpts))

\* The timer service runs the interval's callback and keeps it registered
\* for the next period
CountdownIntervalFire ==
    /\ hook = "useCountdown"
    /\ \E tm \in DueTimers(useCountdown) :
        LET again == [tm EXCEPT !.due = @ + countdownOpts.interval]
            s == [useCountdown EXCEPT !.timers = (@ \ {tm}) \cup {again}]
        IN  useCountdown' =
                CountdownCommit(CountdownTick(s, countdownOpts),
                                countdownOpts, now)
    /\ UNCHANGED <<laterVars, now, epoch, hook, script, debounceVars, throttleVars,
                   callbackVars, countdownOpts, clipboardVars>>

\* ==================================================== useCopyToClipboard
\* Texts are numbered, 0 is the empty string; an error message is "" (null),
\* "No text provided to copy" or "Copy operation failed".
Texts == 0 .. NumValues

\* hist, kept beside the state for the properties:
\*   copies     copy(text) calls with a text so far (they number the calls)
\*   successes  successful copies so far (they number the timers)
\*   copiedAt   time of the last successful copy, -1 before the first
\*   since      the last thing that set `copied`: "copy" (a successful one),
\*              "failure", "reset", or "none"
\*   resetSeq   the number of copies that had succeeded before the last
\*              reset()
\*   stale      whether a timer of a copy made before the last reset()
\*              changed the state
\* useState(null), useState(false), useState(null), useState(false);
\* inflight are the calls awaiting navigator.clipboard.writeText
ClipboardFresh ==
    [copiedValue |-> 0, copied |-> FALSE, error |-> "", loading |-> FALSE,
     inflight |-> {}, timers |-> {},
     hist |-> [copies |-> 0, successes |-> 0, copiedAt |-> -1,
               since |-> "none", resetSeq |-> 0, stale |-> FALSE]]

ClipboardOff ==
    /\ useCopyToClipboard = ClipboardFresh
    /\ clipboardOpts = [successDuration |-> 0, resetAfterDelay |-> FALSE]

ClipboardInit ==
    /\ useCopyToClipboard = ClipboardFresh
    /\ clipboardOpts \in [successDuration : 1 .. MaxDelay,
                          resetAfterDelay : BOOLEAN]

\* What the hook's state shows
ClipboardShown(s) == <<s.copiedValue, s.copied, s.error, s.loading>>

\* copy(text) up to the await: the empty text is refused; otherwise loading
\* is set, the error cleared and the write awaited
CopyBegins(s, text) ==
    IF text = 0
    THEN [s EXCEPT !.error = "No text provided to copy"]
    ELSE [s EXCEPT !.loading = TRUE,
                   !.error = "",
                   !.inflight = @ \cup {[text |-> text,
                                         seq |-> s.hist.copies + 1]},
                   !.hist.copies = @ + 1]

\* copy(text) after the write succeeded at time t
CopySucceeds(s, o, call, t) ==
    [s EXCEPT !.copiedValue = call.text,
              !.copied = TRUE,
              !.error = "",
              !.loading = FALSE,
              !.inflight = @ \ {call},
              !.timers = IF o.resetAfterDelay
                         THEN @ \cup {setTimeout("reset", t, o.successDuration,
                                                 s.hist.successes + 1)}
                         ELSE @,
              !.hist.successes = @ + 1,
              !.hist.copiedAt = t,
              !.hist.since = "copy"]

\* copy(text) after the write failed
CopyFails(s, call) ==
    [s EXCEPT !.error = "Copy operation failed",
              !.copied = FALSE,
              !.loading = FALSE,
              !.inflight = @ \ {call},
              !.hist.since = "failure"]

\* reset()
ClipboardReset(s) ==
    [s EXCEPT !.copiedValue = 0,
              !.copied = FALSE,
              !.error = "",
              !.loading = FALSE,
              !.hist.since = "reset",
              !.hist.resetSeq = s.hist.successes]

\* The timer's callback: setCopied(false), setError(null)
ClipboardTimerCallback(s, tm) ==
    LET after == [s EXCEPT !.copied = FALSE, !.error = "",
                           !.timers = @ \ {tm}]
    IN  [after EXCEPT !.hist.stale =
            @ \/ ( /\ tm.val <= s.hist.resetSeq
                   /\ ClipboardShown(after) # ClipboardShown(s) )]

ClipboardCopy(text) ==
    /\ hook = "useCopyToClipboard"
    /\ DueTimers(useCopyToClipboard) = {}
    /\ useCopyToClipboard.hist.copies < MaxCopies
    /\ useCopyToClipboard' = CopyBegins(useCopyToClipboard, text)
    /\ UNCHANGED <<laterVars, now, epoch, hook, script, debounceVars, throttleVars,
                   callbackVars, countdownVars, clipboardOpts>>

\* The awaited write settles
ClipboardWriteResolves ==
    /\ hook = "useCopyToClipboard"
    /\ DueTimers(useCopyToClipboard) = {}
    /\ \E call \in useCopyToClipboard.inflight :
        useCopyToClipboard' =
            CopySucceeds(useCopyToClipboard, clipboardOpts, call, now)
    /\ UNCHANGED <<laterVars, now, epoch, hook, script, debounceVars, throttleVars,
                   callbackVars, countdownVars, clipboardOpts>>

ClipboardWriteRejects ==
    /\ hook = "useCopyToClipboard"
    /\ DueTimers(useCopyToClipboard) = {}
    /\ \E call \in useCopyToClipboard.inflight :
        useCopyToClipboard' = CopyFails(useCopyToClipboard, call)
    /\ UNCHANGED <<laterVars, now, epoch, hook, script, debounceVars, throttleVars,
                   callbackVars, countdownVars, clipboardOpts>>

ClipboardResetCall ==
    /\ hook = "useCopyToClipboard"
    /\ DueTimers(useCopyToClipboard) = {}
    /\ useCopyToClipboard' = ClipboardReset(useCopyToClipboard)
    /\ UNCHANGED <<laterVars, now, epoch, hook, script, debounceVars, throttleVars,
                   callbackVars, countdownVars, clipboardOpts>>

ClipboardTimerFire ==
    /\ hook = "useCopyToClipboard"
    /\ \E tm \in DueTimers(useCopyToClipboard) :
        useCopyToClipboard' = ClipboardTimerCallback(useCopyToClipboard, tm)
    /\ UNCHANGED <<laterVars, now, epoch, hook, script, debounceVars, throttleVars,
                   callbackVars, countdownVars, clipboardOpts>>

\* ============================================================== useAsync
\* src/src/useAsync.ts (execute, options {immediate}); the older copy in
\* part_000 (run, argument `trigger`) has the same body.  The calls are
\* numbered as they start; call n's promise resolves with the result n or
\* rejects with the error n; 0 is `null`.  `inflight` holds the calls whose
\* promise has not settled, `started` the number of the latest call.
AsyncFresh ==
    [mounted |-> FALSE, loading |-> FALSE, error |-> 0, value |-> 0,
     inflight |-> {}, started |-> 0]

AsyncOff ==
    /\ useAsync = AsyncFresh
    /\ asyncOpts = [immediate |-> FALSE]

\* useState(false), useState(null), useState(null): the first render
AsyncInit ==
    /\ useAsync = AsyncFresh
    /\ asyncOpts \in [immediate : BOOLEAN]

\* execute(...args) up to its await: setLoading(true), setError(null),
\* setValue(null), and fn(...args) is called
Execute(s) ==
    [s EXCEPT !.loading = TRUE, !.error = 0, !.value = 0,
              !.started = @ + 1, !.inflight = @ \cup {s.started + 1}]

\* execute after its await, the promise of call n resolved:
\* setValue(res), then the finally block
ExecuteResolved(s, n) ==
    [s EXCEPT !.value = n, !.loading = FALSE, !.inflight = @ \ {n}]

\* execute after its await, the promise of call n rejected:
\* setError(errObj), then the finally block
ExecuteRejected(s, n) ==
    [s EXCEPT !.error = n, !.loading = FALSE, !.inflight = @ \ {n}]

\* The mount effect: execute(...initialArgs) if `immediate`
AsyncMount ==
    /\ hook = "useAsync"
    /\ ~useAsync.mounted
    /\ useAsync' = LET s == [useAsync EXCEPT !.mounted = TRUE]
                   IN  IF asyncOpts.immediate THEN Execute(s) ELSE s
    /\ UNCHANGED <<now, epoch, hook, script, debounceVars, throttleVars,
                   callbackVars, countdownVars, clipboardVars, reconfigs,
                   asyncOpts>>

\* The caller calls execute
AsyncExecute ==
    /\ hook = "useAsync"
    /\ useAsync.mounted
    /\ useAsync.started < MaxCalls
    /\ useAsync' = Execute(useAsync)
    /\ UNCHANGED <<now, epoch, hook, script, debounceVars, throttleVars,
                   callbackVars, countdownVars, clipboardVars, reconfigs,
                   asyncOpts>>

\* A promise in flight resolves
AsyncResolve ==
    /\ hook = "useAsync"
    /\ \E n \in useAsync.inflight :
          useAsync' = ExecuteResolved(useAsync, n)
    /\ UNCHANGED <<now, epoch, hook, script, debounceVars, throttleVars,
                   callbackVars, countdownVars, clipboardVars, reconfigs,
                   asyncOpts>>

\* A promise in flight rejects
AsyncReject ==
    /\ hook = "useAsync"
    /\ \E n \in useAsync.inflight :
          useAsync' = ExecuteRejected(useAsync, n)
    /\ UNCHANGED <<now, epoch, hook, script, debounceVars, throttleVars,
                   callbackVars, countdownVars, clipboardVars, reconfigs,
                   asyncOpts>>

\* ================================================== configuration changes
\* A render that passes useDebounce other options.  The first effect has
\* delay, leading and maxWait among its deps: its cleanup runs and it runs
\* again, with the options of this render.  (The second effect, deps value
\* and leading, changes nothing after the mount unless `leading` changed.)
DebounceReconfigure(o) ==
    /\ hook = "useDebounce"
    /\ useDebounce.mounted
    /\ ~useDebounce.unmounted
    /\ DebounceNoTimerDue
    /\ reconfigs < MaxReconfigs
    /\ o # debounceOpts
    /\ debounceOpts' = o
    /\ useDebounce' = DebounceCommit(useDebounce, o, now)
    /\ reconfigs' = reconfigs + 1
    /\ UNCHANGED <<now, epoch, hook, script, debounceHist, throttleVars,
                   callbackVars, countdownVars, clipboardVars, asyncVars>>

\* A render that passes useThrottle other options.  The effect has delay,
\* leading and trailing among its deps: the previous cleanup runs, then the
\* effect, with the options of this render and the value unchanged.
ThrottleReconfigure(o) ==
    /\ hook = "useThrottle"
    /\ useThrottle.mounted
    /\ ~useThrottle.unmounted
    /\ DueTimers(useThrottle) = {}
    /\ reconfigs < MaxReconfigs
    /\ o # throttleOpts
    /\ throttleOpts' = o
    /\ LET s == ThrottleCleanup(useThrottle)
       IN  /\ useThrottle' = ThrottleEffect(s, o, now)
           /\ throttleHist' = [ThrottleRan(s, o, throttleHist, now)
                                  EXCEPT !.seq = throttleHist.seq]
    /\ reconfigs' = reconfigs + 1
    /\ UNCHANGED <<now, epoch, hook, script, debounceVars, callbackVars,
                   countdownVars, clipboardVars, asyncVars>>

\* A render that passes useThrottleCallback other options: useCallback makes
\* a new throttledCallback that closes over them; the refs and the
\* registered timer are as they were.
CallbackReconfigure(o) ==
    /\ hook = "useThrottleCallback"
    /\ ~useThrottleCallback.unmounted
    /\ DueTimers(useThrottleCallback) = {}
    /\ reconfigs < MaxReconfigs
    /\ o # callbackOpts
    /\ callbackOpts' = o
    /\ reconfigs' = reconfigs + 1
    /\ UNCHANGED <<now, epoch, hook, script, debounceVars, throttleVars,
                   useThrottleCallback, callbackHist, countdownVars,
                   clipboardVars, asyncVars>>

\* No option was changed, and there is no useAsync
LaterOff == reconfigs = 0 /\ AsyncOff

OthersOff == CountdownOff /\ ClipboardOff /\ LaterOff

\* ================================================================= clock
NoTimerDue ==
    /\ DueTimers(useDebounce) = {}
    /\ DueTimers(useThrottle) = {}
    /\ DueTimers(useThrottleCallback) = {}
    /\ DueTimers(useCountdown) = {}
    /\ DueTimers(useCopyToClipboard) = {}

\* A millisecond passes; the clock does not pass a due timer.
Tick ==
    /\ now < MaxTime
    /\ NoTimerDue
    /\ now' = now + 1
    /\ UNCHANGED <<otherVars, epoch, hook, script, debounceVars, throttleVars,
                   callbackVars>>

\* ======================================================== specifications
InitDebounce ==
    /\ epoch = 0
    /\ now = epoch
    /\ script = 0
    /\ OthersOff
    /\ hook = "useDebounce"
    /\ DebounceInit
    /\ ThrottleOff
    /\ CallbackOff

NextDebounce ==
    \/ DebounceMount
    \/ \E v \in Values : DebounceUpdate(v)
    \/ DebounceTimerFire
    \/ DebounceMaxWaitFire
    \/ Tick

SpecDebounce == InitDebounce /\ [][NextDebounce]_vars

\* Both throttle hooks; a behaviour follows one instance of one of them.
InitThrottle ==
    /\ epoch = 0
    /\ now = epoch
    /\ script = 0
    /\ OthersOff
    /\ DebounceOff
    /\ \/ hook = "useThrottle" /\ ThrottleInit /\ CallbackOff
       \/ hook = "useThrottleCallback" /\ CallbackInit /\ ThrottleOff

NextThrottle ==
    \/ ThrottleMount
    \/ \E v \in Values : ThrottleUpdate(v)
    \/ ThrottleTimerFire
    \/ CallbackInvoke
    \/ CallbackTimerFire
    \/ CallbackCancel
    \/ CallbackFlush
    \/ Tick

SpecThrottle == InitThrottle /\ [][NextThrottle]_vars

\* One useThrottleCallback, alone
InitCallback ==
    /\ epoch = 0
    /\ now = epoch
    /\ script = 0
    /\ OthersOff
    /\ hook = "useThrottleCallback"
    /\ DebounceOff
    /\ ThrottleOff
    /\ CallbackInit

\* Renders replace the wrapped function, which returns normally; cancel()
\* never calls it and is left out.
NextCallbackRef ==
    \/ CallbackInvoke
    \/ CallbackTimerFire
    \/ CallbackFlush
    \/ CallbackRender
    \/ Tick

SpecCallbackRef == InitCallback /\ [][NextCallbackRef]_vars

\* The wrapped function may throw whenever it is called.
NextCallbackThrows ==
    \/ CallbackInvoke
    \/ CallbackTimerFire
    \/ CallbackCancel
    \/ CallbackFlush
    \/ CallbackInvokeThrows
    \/ CallbackFlushThrows
    \/ CallbackTimerFireThrows
    \/ Tick

SpecCallbackThrows == InitCallback /\ [][NextCallbackThrows]_vars

\* The three time-windowed hooks, each of which may be unmounted at any
\* time.  cancel() leaves the state flush() leaves, but for the window anchor
\* (which the unmount cleanup does not read), and is left out.
InitTeardown ==
    /\ epoch = 0
    /\ now = epoch
    /\ script = 0
    /\ OthersOff
    /\ \/ hook = "useDebounce" /\ DebounceInit /\ ThrottleOff /\ CallbackOff
       \/ hook = "useThrottle" /\ ThrottleInit /\ DebounceOff /\ CallbackOff
       \/ hook = "useThrottleCallback" /\ CallbackInit /\ DebounceOff
              /\ ThrottleOff

NextTeardown ==
    \/ DebounceMount
    \/ \E v \in Values : DebounceUpdate(v)
    \/ DebounceTimerFire
    \/ DebounceMaxWaitFire
    \/ DebounceUnmount
    \/ ThrottleMount
    \/ \E v \in Values : ThrottleUpdate(v)
    \/ ThrottleTimerFire
    \/ ThrottleUnmount
    \/ CallbackInvoke
    \/ CallbackTimerFire
    \/ CallbackFlush
    \/ CallbackUnmount
    \/ Tick

SpecTeardown == InitTeardown /\ [][NextTeardown]_vars

\* The three time-windowed hooks with every operation a mounted hook offers
NextGates ==
    \/ DebounceMount
    \/ \E v \in Values : DebounceUpdate(v)
    \/ DebounceTimerFire
    \/ DebounceMaxWaitFire
    \/ ThrottleMount
    \/ \E v \in Values : ThrottleUpdate(v)
    \/ ThrottleTimerFire
    \/ CallbackInvoke
    \/ CallbackTimerFire
    \/ CallbackCancel
    \/ CallbackFlush
    \/ Tick

SpecGates == InitTeardown /\ [][NextGates]_vars

\* The three time-windowed hooks, re-rendered with other options while they
\* are live; a render changes one option.
DebounceOptionChanges(o) ==
    {[o EXCEPT !.delay = d] : d \in Delays}
        \cup {[o EXCEPT !.maxWait = m] : m \in MaxWaits}
        \cup {[o EXCEPT !.leading = ~@]}

ThrottleOptionChanges(o) ==
    {[o EXCEPT !.delay = d] : d \in Delays}
        \cup {[o EXCEPT !.leading = ~@], [o EXCEPT !.trailing = ~@]}

NextReconfigure ==
    \/ DebounceMount
    \/ \E v \in Values : DebounceUpdate(v)
    \/ DebounceTimerFire
    \/ DebounceMaxWaitFire
    \/ \E o \in DebounceOptionChanges(debounceOpts) : DebounceReconfigure(o)
    \/ ThrottleMount
    \/ \E v \in Values : ThrottleUpdate(v)
    \/ ThrottleTimerFire
    \/ \E o \in ThrottleOptionChanges(throttleOpts) : ThrottleReconfigure(o)
    \/ CallbackInvoke
    \/ CallbackTimerFire
    \/ \E o \in ThrottleOptionChanges(callbackOpts) : CallbackReconfigure(o)
    \/ Tick

SpecReconfigure == InitTeardown /\ [][NextReconfigure]_vars

\* One useAsync; its promises settle in any order
InitAsync ==
    /\ epoch = 0
    /\ now = epoch
    /\ script = 0
    /\ hook = "useAsync"
    /\ DebounceOff
    /\ ThrottleOff
    /\ CallbackOff
    /\ CountdownOff
    /\ ClipboardOff
    /\ reconfigs = 0
    /\ AsyncInit

NextAsync ==
    \/ AsyncMount
    \/ AsyncExecute
    \/ AsyncResolve
    \/ AsyncReject

SpecAsync == InitAsync /\ [][NextAsync]_vars

\* The three time-windowed hooks constructed with a negative `delay` (and,
\* for useDebounce, any maxWait, negative ones included): the hooks accept
\* any number
NegativeDelays == -MaxDelay .. -1

InitNegative ==
    /\ epoch = 0
    /\ now = epoch
    /\ script = 0
    /\ OthersOff
    /\ \/ /\ hook = "useDebounce"
          /\ \E v \in Values :
               useDebounce = [mounted |-> FALSE, value |-> v,
                              debouncedValue |-> v, isFirstCall |-> TRUE,
                              timer |-> NoTimer, maxWaitTimer |-> NoTimer,
                              timers |-> {}, unmounted |-> FALSE]
          /\ debounceOpts \in [delay : NegativeDelays, leading : BOOLEAN,
                                maxWait : NegativeDelays \cup MaxWaits]
          /\ debounceHist = DebounceNoHist
          /\ ThrottleOff
          /\ CallbackOff
       \/ /\ hook = "useThrottle"
          /\ \E v \in Values : useThrottle = ThrottleFresh(v)
          /\ throttleOpts \in [delay : NegativeDelays, leading : BOOLEAN,
                                trailing : BOOLEAN]
          /\ throttleHist = NoHist
          /\ DebounceOff
          /\ CallbackOff
       \/ /\ hook = "useThrottleCallback"
          /\ useThrottleCallback = CallbackFresh
          /\ callbackOpts \in [delay : NegativeDelays, leading : BOOLEAN,
                                trailing : BOOLEAN]
          /\ callbackHist = CallbackNoHist
          /\ DebounceOff
          /\ ThrottleOff

NextNegative ==
    \/ DebounceMount
    \/ \E v \in Values : DebounceUpdate(v)
    \/ DebounceTimerFire
    \/ DebounceMaxWaitFire
    \/ ThrottleMount
    \/ \E v \in Values : ThrottleUpdate(v)
    \/ ThrottleTimerFire
    \/ CallbackInvoke
    \/ CallbackTimerFire
    \/ CallbackCancel
    \/ CallbackFlush
    \/ Tick

SpecNegative == InitNegative /\ [][NextNegative]_vars

\* One useCountdown
InitCountdown ==
    /\ epoch = 0
    /\ now = epoch
    /\ script = 0
    /\ hook = "useCountdown"
    /\ DebounceOff
    /\ ThrottleOff
    /\ CallbackOff
    /\ CountdownInit
    /\ ClipboardOff
    /\ LaterOff

NextCountdown ==
    \/ CountdownMount
    \/ CountdownStart
    \/ CountdownPause
    \/ CountdownResetCall
    \/ CountdownIntervalFire
    \/ Tick

SpecCountdown == InitCountdown /\ [][NextCountdown]_vars

\* One useCopyToClipboard
InitClipboard ==
    /\ epoch = 0
    /\ now = epoch
    /\ script = 0
    /\ hook = "useCopyToClipboard"
    /\ DebounceOff
    /\ ThrottleOff
    /\ CallbackOff
    /\ CountdownOff
    /\ ClipboardInit
    /\ LaterOff

NextClipboard ==
    \/ \E text \in Texts : ClipboardCopy(text)
    \/ ClipboardWriteResolves
    \/ ClipboardWriteRejects
    \/ ClipboardResetCall
    \/ ClipboardTimerFire
    \/ Tick

SpecClipboard == InitClipboard /\ [][NextClipboard]_vars

\* The scripted scenario of the specification's section 8: delay = 100,
\* leading = trailing = true, calls at t = 0, 30, 60, 90, 130 after the
\* behaviour began, carrying A..E (here 1..5).  For useThrottle the call at
\* t = 0 is the mount with value A.
ScenarioOpts == [delay |-> 100, leading |-> TRUE, trailing |-> TRUE]
ScenarioCalls == <<0, 30, 60, 90, 130>>
ScenarioHorizon == ScenarioCalls[Len(ScenarioCalls)] + ScenarioOpts.delay

ScenarioCallDue ==
    /\ script < Len(ScenarioCalls)
    /\ now = epoch + ScenarioCalls[script + 1]

ScenarioCall ==
    /\ ScenarioCallDue
    /\ NoTimerDue
    /\ script' = script + 1
    /\ \/ /\ hook = "useThrottle"
          /\ IF script = 0 THEN ThrottleMountStep
                           ELSE ThrottleUpdateStep(script + 1)
          /\ UNCHANGED <<throttleOpts, callbackVars>>
       \/ /\ hook = "useThrottleCallback"
          /\ CallbackInvokeStep(script + 1)
          /\ UNCHANGED <<callbackOpts, throttleVars>>
    /\ UNCHANGED <<otherVars, now, epoch, hook, debounceVars>>

ScenarioTick ==
    /\ now < epoch + ScenarioHorizon
    /\ NoTimerDue
    /\ ~ScenarioCallDue
    /\ now' = now + 1
    /\ UNCHANGED <<otherVars, epoch, hook, script, debounceVars, throttleVars,
                   callbackVars>>

\* The clock reads 0 (a mocked clock) or at least `delay` when the script
\* begins.
InitScenario ==
    /\ epoch \in {0, ScenarioOpts.delay}
    /\ now = epoch
    /\ script = 0
    /\ OthersOff
    /\ DebounceOff
    /\ \/ /\ hook = "useThrottle"
          /\ useThrottle = ThrottleFresh(1)
          /\ throttleOpts = ScenarioOpts
          /\ throttleHist = NoHist
          /\ CallbackOff
       \/ /\ hook = "useThrottleCallback"
          /\ useThrottleCallback = CallbackFresh
          /\ callbackOpts = ScenarioOpts
          /\ callbackHist = CallbackNoHist
          /\ ThrottleOff

NextScenario ==
    \/ ScenarioCall
    \/ ThrottleTimerFire
    \/ CallbackTimerFire
    \/ ScenarioTick

SpecScenario == InitScenario /\ [][NextScenario]_vars

\* ------------------------------------------------------ useDebounce claims
DebounceMaxWaitValid ==
    debounceOpts.maxWait = 0 \/ debounceOpts.maxWait >= debounceOpts.delay

\* The body of C1: after one update(v) that nothing follows, nothing is
\* written to the output before `delay` has passed, the output changes at
\* most once, and once no timer is left it changed exactly once, to v.
DebounceQuiescenceBody ==
    debounceHist.burstN = 1 =>
        /\ now < debounceHist.updAt + debounceOpts.delay
               => debounceHist.writes = 0
        /\ debounceHist.changes <= 1
        /\ DebounceQuiet => /\ debounceHist.changes = 1
                            /\ useDebounce.debouncedValue = useDebounce.value

\* C1 as stated: debounce quiescence for every configuration (any delay,
\* leading, maxWait set or unset): a single update(v) with no follow-up
\* makes the output become v exactly once, never before `delay` has elapsed.
C1_QuiescenceAnyConfig ==
    hook = "useDebounce" => DebounceQuiescenceBody

\* C1 as amended: the same, for every configuration whose maxWait is unset
\* or at least `delay`.
C1_Quiescence ==
    (hook = "useDebounce" /\ DebounceMaxWaitValid) => DebounceQuiescenceBody

\* A single update has been emitted, with maxWait set, after a real delay.
C1_Witness ==
    /\ hook = "useDebounce"
    /\ debounceOpts.delay > 0
    /\ debounceOpts.maxWait > debounceOpts.delay
    /\ debounceHist.burstN = 1
    /\ DebounceQuiet
    /\ debounceHist.changes = 1
    /\ useDebounce.debouncedValue = useDebounce.value
    /\ now >= debounceHist.updAt + debounceOpts.maxWait

\* What C2 says while the burst runs and when it ends: nothing becomes the
\* output before `delay` after the burst's last update, the output changes
\* at most once, and then to the last value.
DebounceBurstBody ==
    debounceHist.burstN >= 1 =>
        /\ now < debounceHist.updAt + debounceOpts.delay
               => debounceHist.changes = 0
        /\ debounceHist.changes <= 1
        /\ debounceHist.changes = 1
               => useDebounce.debouncedValue = useDebounce.value
        /\ DebounceQuiet => useDebounce.debouncedValue = useDebounce.value

\* C2 as stated: any burst of N >= 1 updates, each less than `delay` after
\* the previous one, produces exactly one emission, carrying the value of
\* the last update; no intermediate value ever becomes the output.
C2_BurstCollapseAnyConfig ==
    hook = "useDebounce" =>
        /\ DebounceBurstBody
        /\ (debounceHist.burstN >= 1 /\ DebounceQuiet)
               => debounceHist.changes = 1

\* C2 as amended: with maxWait unset or at least `delay`, the burst produces
\* one emission carrying its last value, at `delay` after its last update
\* (no change of the output is needed, and none happens, when that value is
\* the one the output already shows), and no intermediate value ever becomes
\* the output.
C2_BurstCollapse ==
    (hook = "useDebounce" /\ DebounceMaxWaitValid) =>
        /\ DebounceBurstBody
        /\ (debounceHist.burstN >= 1 /\ DebounceQuiet
                /\ useDebounce.value # debounceHist.out0)
               => debounceHist.changes = 1
        /\ (debounceHist.burstN >= 1 /\ DebounceQuiet
                /\ useDebounce.value = debounceHist.out0)
               => debounceHist.changes = 0

\* A burst of at least three updates has collapsed into one emission.
C2_Witness ==
    /\ hook = "useDebounce"
    /\ DebounceMaxWaitValid
    /\ debounceOpts.delay > 1
    /\ debounceHist.burstN >= 3
    /\ debounceHist.updAt > debounceHist.burstStart
    /\ DebounceQuiet
    /\ debounceHist.changes = 1
    /\ useDebounce.debouncedValue = useDebounce.value

\* C3: with maxWait set, a burst whose updates keep arriving less than
\* `delay` apart for longer than maxWait has emitted by maxWait after the
\* burst's first update.
C3_MaxWaitBound ==
    ( /\ hook = "useDebounce"
      /\ debounceOpts.maxWait # 0
      /\ debounceOpts.maxWait >= debounceOpts.delay
      /\ debounceHist.burstN >= 1
      /\ now - debounceHist.updAt < debounceOpts.delay
      /\ now > debounceHist.burstStart + debounceOpts.maxWait )
    => debounceHist.burstWrites >= 1

\* C4: with leading = true, an update made while no quiescence timer is
\* running makes the output equal to the new value in the same step, and
\* arms the quiescence timer.
C4_LeadingEdge ==
    [][ ( /\ hook = "useDebounce"
          /\ debounceOpts.leading
          /\ useDebounce.mounted
          /\ debounceOpts.delay > 0
          /\ \A tm \in useDebounce.timers : tm.kind # "timer"
          /\ useDebounce'.value # useDebounce.value )
        => ( /\ useDebounce'.debouncedValue = useDebounce'.value
             /\ \E tm \in useDebounce'.timers : tm.kind = "timer" ) ]_vars

\* ------------------------------------------- useThrottle(Callback) claims
LeadingOnly(o) == o.leading /\ ~o.trailing

SameEmissions(h, g) ==
    /\ g.emitAt = h.emitAt
    /\ g.prevEmitAt = h.prevEmitAt
    /\ g.lastVal = h.lastVal
    /\ g.emitted = h.emitted
    /\ g.again = h.again

\* C5: with leading = true and trailing = false, in both throttle hooks, an
\* update / invoke less than `delay` after the last emission is dropped (no
\* emission, no timer, nothing stored, so nothing can emit it later) and one
\* at least `delay` after the last emission is emitted in the same step.
C5_LeadingOnly ==
    /\ [][ ( /\ hook = "useThrottle"
             /\ LeadingOnly(throttleOpts)
             /\ useThrottle.mounted
             /\ useThrottle'.value # useThrottle.value )
           => IF now - throttleHist.emitAt < throttleOpts.delay
              THEN /\ SameEmissions(throttleHist, throttleHist')
                   /\ useThrottle'.throttledValue = useThrottle.throttledValue
                   /\ useThrottle'.timers = {}
              ELSE /\ useThrottle'.throttledValue = useThrottle'.value
                   /\ throttleHist'.emitAt = now
                   /\ throttleHist'.lastVal = useThrottle'.value ]_vars
    /\ [][ ( /\ hook = "useThrottleCallback"
             /\ LeadingOnly(callbackOpts)
             /\ callbackHist.emitAt >= 0
             /\ callbackHist'.seq = callbackHist.seq + 1 )
           => IF now - callbackHist.emitAt < callbackOpts.delay
              THEN /\ SameEmissions(callbackHist, callbackHist')
                   /\ useThrottleCallback' = useThrottleCallback
              ELSE /\ callbackHist'.emitAt = now
                   /\ callbackHist'.lastVal = callbackHist'.seq
                   /\ callbackHist'.lastKind = "leading" ]_vars
    /\ []( LeadingOnly(throttleOpts) => useThrottle.timers = {} )
    /\ []( LeadingOnly(callbackOpts) =>
              /\ useThrottleCallback.timers = {}
              /\ useThrottleCallback.pendingArgsRef = 0
              /\ ~callbackHist.again )

\* Leading-only, a real delay: of four invokes two were emitted, two dropped.
C5_Witness ==
    /\ hook = "useThrottleCallback"
    /\ LeadingOnly(callbackOpts)
    /\ callbackOpts.delay > 1
    /\ callbackHist.seq = 4
    /\ callbackHist.emitted = {1, 3}
    /\ callbackHist.emitAt - callbackHist.prevEmitAt >= callbackOpts.delay

GapOk(h, o) ==
    (h.prevEmitAt >= 0 /\ h.lastKind # "flush")
        => h.emitAt - h.prevEmitAt >= o.delay

LatencyOk(h, o) ==
    h.lastKind = "trailing" => h.emitAt <= h.supplied + o.delay

\* C6: with trailing = true, in both throttle hooks, two consecutive
\* emissions caused by updates / invokes are at least `delay` apart, and the
\* value awaiting the trailing timer is the most recent one supplied and is
\* emitted no later than `delay` after it was supplied (the clock does not
\* pass a due timer).
C6_TrailingBound ==
    /\ (hook = "useThrottle" /\ throttleOpts.trailing) =>
         /\ GapOk(throttleHist, throttleOpts)
         /\ LatencyOk(throttleHist, throttleOpts)
         /\ \A tm \in useThrottle.timers :
              /\ tm.val = useThrottle.value
              /\ tm.due <= throttleHist.pendingAt + throttleOpts.delay
    /\ (hook = "useThrottleCallback" /\ callbackOpts.trailing) =>
         /\ GapOk(callbackHist, callbackOpts)
         /\ LatencyOk(callbackHist, callbackOpts)
         /\ \A tm \in useThrottleCallback.timers :
              /\ useThrottleCallback.pendingArgsRef = callbackHist.seq
              /\ tm.due <= callbackHist.pendingAt + callbackOpts.delay

\* A leading call, then a burst inside its window whose last arguments the
\* trailing timer delivered exactly one window after the leading call.
C6_Witness ==
    /\ hook = "useThrottleCallback"
    /\ callbackOpts.leading /\ callbackOpts.trailing
    /\ callbackOpts.delay > 1
    /\ callbackHist.seq = 3
    /\ callbackHist.emitted = {1, 3}
    /\ callbackHist.lastKind = "trailing"
    /\ callbackHist.emitAt - callbackHist.prevEmitAt = callbackOpts.delay

ScenarioHist ==
    IF hook = "useThrottle" THEN throttleHist ELSE callbackHist

ScenarioTimers ==
    IF hook = "useThrottle" THEN useThrottle.timers
                            ELSE useThrottleCallback.timers

\* Exactly one timer is registered, due at time t
OneTimerDueAt(timers, t) ==
    Cardinality(timers) = 1 /\ \A tm \in timers : tm.due = t

\* What the scenario does up to t = 130 that C7 and its amendment agree on:
\* D by the trailing timer at t = 100, B and C never.
ScenarioUpToD ==
    /\ 2 \notin ScenarioHist.emitted
    /\ 3 \notin ScenarioHist.emitted
    /\ (script = 4 /\ now < epoch + 100) =>
          OneTimerDueAt(ScenarioTimers, epoch + 100)
    /\ (now >= epoch + 100 /\ now < epoch + 130 /\ NoTimerDue) =>
          /\ ScenarioHist.lastVal = 4
          /\ ScenarioHist.lastKind = "trailing"
          /\ ScenarioHist.emitAt = epoch + 100

\* C7: delay = 100, leading = trailing = true, calls at t = 0, 30, 60, 90,
\* 130 carrying A..E: A is emitted at t = 0 (leading), the trailing timer
\* fires at t = 100 with D, B and C are never emitted, and E is emitted at
\* once at t = 130 as a new leading emission.
C7_Scenario ==
    /\ ScenarioUpToD
    /\ (script >= 1 /\ now < epoch + 100) =>
          /\ ScenarioHist.lastVal = 1
          /\ ScenarioHist.lastKind = "leading"
          /\ ScenarioHist.emitAt = epoch
    /\ script = 5 =>
          /\ ScenarioHist.lastVal = 5
          /\ ScenarioHist.lastKind = "leading"
          /\ ScenarioHist.emitAt = epoch + 130

\* C7 as amended: A is emitted at t = 0 (by useThrottle always, by
\* useThrottleCallback when the clock then reads at least `delay`; if not, A
\* is stored as pending and replaced by B), the trailing timer fires at
\* t = 100 with D, B and C are never emitted, and E at t = 130, only 30 after
\* that emission, is not emitted at once: it waits for the trailing timer,
\* which emits it at t = 200.
C7_ScenarioAmended ==
    /\ ScenarioUpToD
    /\ (script >= 1 /\ now < epoch + 100) =>
          IF hook = "useThrottle" \/ epoch >= ScenarioOpts.delay
          THEN /\ ScenarioHist.lastVal = 1
               /\ ScenarioHist.lastKind = "leading"
               /\ ScenarioHist.emitAt = epoch
          ELSE /\ ScenarioHist.emitted = {}
               /\ useThrottleCallback.pendingArgsRef = script
    /\ (script = 5 /\ now < epoch + 200) =>
          /\ ScenarioHist.lastVal = 4
          /\ ScenarioHist.emitAt = epoch + 100
          /\ OneTimerDueAt(ScenarioTimers, epoch + 200)
          /\ hook = "useThrottle" => useThrottle.timeoutRef.val = 5
          /\ hook = "useThrottleCallback"
                => useThrottleCallback.pendingArgsRef = 5
    /\ (now >= epoch + 200 /\ NoTimerDue) =>
          /\ ScenarioHist.lastVal = 5
          /\ ScenarioHist.lastKind = "trailing"
          /\ ScenarioHist.emitAt = epoch + 200
          /\ 1 \in ScenarioHist.emitted
                => ScenarioHist.emitted = {1, 4, 5}

\* The script has run to its end: E came out of the trailing timer at 200.
C7_Witness ==
    /\ script = 5
    /\ now > epoch + 200
    /\ ScenarioHist.emitted = {1, 4, 5}
    /\ ScenarioHist.lastVal = 5
    /\ ScenarioHist.emitAt = epoch + 200

\* C8: arguments that cancel() discarded while they were pending are never
\* passed to the wrapped function, by the timer, by a later flush() or by
\* cancel() itself.
C8_CancelPreventsExecution ==
    hook = "useThrottleCallback" =>
        callbackHist.cancelled \cap callbackHist.emitted = {}

\* Pending arguments were cancelled, nothing was invoked since, flush() was
\* called afterwards and the time at which the timer was due has passed.
C8_Witness ==
    /\ hook = "useThrottleCallback"
    /\ callbackOpts.delay > 1
    /\ callbackHist.seq \in callbackHist.cancelled
    /\ callbackHist.flushRun >= 1
    /\ callbackHist.pendingAt >= 0
    /\ now > callbackHist.pendingAt + callbackOpts.delay

\* C9: flush() with a trailing emission pending deregisters the timer,
\* invokes the wrapped function once, synchronously, with the most recently
\* stored arguments, and leaves nothing pending, no timer live and
\* isThrottled false; nothing is ever invoked twice, so the cancelled timer
\* does not invoke the function again.
C9_FlushPending ==
    /\ [][ ( /\ hook = "useThrottleCallback"
             /\ callbackHist'.flushRun = callbackHist.flushRun + 1
             /\ useThrottleCallback.timeoutRef \in useThrottleCallback.timers
             /\ useThrottleCallback.pendingArgsRef # 0 )
           => ( /\ useThrottleCallback.pendingArgsRef = callbackHist.seq
                /\ callbackHist'.emitted = callbackHist.emitted
                       \cup {useThrottleCallback.pendingArgsRef}
                /\ callbackHist'.lastVal = useThrottleCallback.pendingArgsRef
                /\ callbackHist'.lastKind = "flush"
                /\ callbackHist'.emitAt = now
                /\ useThrottleCallback'.pendingArgsRef = 0
                /\ ~Truthy(useThrottleCallback'.timeoutRef)
                /\ useThrottleCallback'.timers = {}
                /\ ~useThrottleCallback'.isThrottled ) ]_vars
    /\ []( hook = "useThrottleCallback" => ~callbackHist.again )

\* flush() delivered the pending arguments, and the time at which the
\* cancelled timer was due has passed.
C9_Witness ==
    /\ hook = "useThrottleCallback"
    /\ callbackOpts.delay > 1
    /\ callbackHist.lastKind = "flush"
    /\ callbackHist.lastVal = callbackHist.seq
    /\ callbackHist.emitAt < callbackHist.pendingAt + callbackOpts.delay
    /\ now > callbackHist.pendingAt + callbackOpts.delay

\* C10: a flush() that follows a flush() with no invoke between them invokes
\* nothing and changes nothing, so the two invoke the wrapped function at
\* most once in total.
C10_FlushIdempotent ==
    [][ ( /\ hook = "useThrottleCallback"
          /\ callbackHist.flushRun >= 1
          /\ callbackHist'.flushRun = callbackHist.flushRun + 1 )
        => ( /\ useThrottleCallback' = useThrottleCallback
             /\ callbackHist' = [callbackHist EXCEPT !.flushRun = 2] ) ]_vars

\* Two flushes in a row, the first of which invoked the wrapped function.
C10_Witness ==
    /\ hook = "useThrottleCallback"
    /\ callbackHist.flushRun = 2
    /\ callbackHist.lastKind = "flush"
    /\ callbackHist.lastVal = callbackHist.seq

\* A trailing emission is pending: arguments are stored and the trailing
\* timer is registered.
CallbackPending(s) ==
    s.pendingArgsRef # 0 /\ s.timeoutRef \in s.timers

\* C11: with no trailing emission pending, flush() and cancel() leave the
\* hook's state (window anchor, pending arguments, timer handle, registered
\* timers, isThrottled) as it is and invoke nothing.
C11_NoOpWhenIdle ==
    /\ []( (hook = "useThrottleCallback"
                /\ ~CallbackPending(useThrottleCallback))
            => /\ Cancel(useThrottleCallback) = useThrottleCallback
               /\ Flush(useThrottleCallback, now) = useThrottleCallback
               /\ ~FlushFinds(useThrottleCallback) )
    /\ [][ ( /\ hook = "useThrottleCallback"
             /\ ~CallbackPending(useThrottleCallback)
             /\ callbackHist'.flushRun = callbackHist.flushRun + 1 )
           => ( /\ useThrottleCallback' = useThrottleCallback
                /\ SameEmissions(callbackHist, callbackHist') ) ]_vars

\* flush() was called some time after a leading call, with nothing pending.
C11_Witness ==
    /\ hook = "useThrottleCallback"
    /\ callbackOpts.delay > 1
    /\ ~CallbackPending(useThrottleCallback)
    /\ callbackHist.flushRun >= 1
    /\ callbackHist.lastKind = "leading"
    /\ now > useThrottleCallback.lastExecutedRef

\* C13: in every reachable state of a live useThrottleCallback whose wrapped
\* function returns normally, isThrottled is true exactly when a trailing
\* emission is pending (arguments stored and the trailing timer registered).
C13_IsThrottledTracksPending ==
    hook = "useThrottleCallback" =>
        /\ useThrottleCallback.isThrottled
               <=> CallbackPending(useThrottleCallback)
        /\ useThrottleCallback.pendingArgsRef # 0
               <=> useThrottleCallback.timers # {}

\* isThrottled is false again after the trailing timer delivered the
\* arguments of the second of two invokes.
C13_Witness ==
    /\ hook = "useThrottleCallback"
    /\ callbackOpts.delay > 1
    /\ callbackHist.lastKind = "trailing"
    /\ callbackHist.lastVal = callbackHist.seq
    /\ callbackHist.seq >= 2
    /\ ~useThrottleCallback.isThrottled
    /\ ~CallbackPending(useThrottleCallback)

\* C12: every call of the wrapped function (leading, by the trailing timer,
\* by flush()) calls the function reference most recently supplied to the
\* hook, also when another one was current when the arguments were stored.
C12_LatestFunction ==
    [][ ( /\ hook = "useThrottleCallback"
          /\ callbackHist'.emitted # callbackHist.emitted )
        => ( /\ callbackHist'.fn = useThrottleCallback.callbackRef
             /\ callbackHist'.fn = useThrottleCallback'.callbackRef ) ]_vars

\* The trailing timer called a function that was supplied after the
\* arguments had been stored.
C12_Witness ==
    /\ hook = "useThrottleCallback"
    /\ callbackOpts.delay > 1
    /\ callbackHist.lastKind = "trailing"
    /\ callbackHist.lastVal = callbackHist.seq
    /\ callbackHist.emitAt = now
    /\ callbackHist.fn = useThrottleCallback.callbackRef
    /\ callbackHist.fn # callbackHist.schedFn

\* The hook this behaviour follows, its history and what it shows
TornDown ==
    \/ hook = "useDebounce" /\ useDebounce.unmounted
    \/ hook = "useThrottle" /\ useThrottle.unmounted
    \/ hook = "useThrottleCallback" /\ useThrottleCallback.unmounted

C15_TrailingFailureContained ==
    hook = "useThrottleCallback" =>
        callbackHist.escaped \in {"none", Escapes("invoke"), Escapes("flush")}

\* C16: a hook constructed with a negative `delay` (or, for useDebounce, a
\* negative maxWait) never reaches a state in which it has accepted an
\* update or an invoke, or has a timer registered.
C16_NegativeRejected ==
    /\ ( /\ hook = "useDebounce"
         /\ debounceOpts.delay < 0 \/ debounceOpts.maxWait < 0 )
       => ( /\ ~useDebounce.mounted
            /\ useDebounce.timers = {}
            /\ debounceHist.updAt = -1 )
    /\ (hook = "useThrottle" /\ throttleOpts.delay < 0)
       => ( /\ ~useThrottle.mounted
            /\ useThrottle.timers = {}
            /\ throttleHist.seq = 0 )
    /\ (hook = "useThrottleCallback" /\ callbackOpts.delay < 0)
       => ( /\ useThrottleCallback.timers = {}
            /\ callbackHist.seq = 0 )

\* C17: in every state of a mounted useCountdown, whatever initialSeconds,
\* autoStart and the calls made, isCompleted implies that isActive is false
\* and that the returned timeLeft is 0.
C17_CompletedNotActive ==
    (hook = "useCountdown" /\ useCountdown.mounted) =>
        ( CountdownReturn(useCountdown).isCompleted
          => /\ ~CountdownReturn(useCountdown).isActive
             /\ CountdownReturn(useCountdown).timeLeft = 0 )

\* C18: with resetAfterDelay, `copied` stays true for successDuration after
\* every successful copy (as long as no reset() and no failed copy cleared
\* it), also when an earlier copy succeeded less than successDuration before
\* it; and no timer of a copy made before a reset() changes the state.
C18_CopiedLastsSuccessDuration ==
    (hook = "useCopyToClipboard" /\ clipboardOpts.resetAfterDelay) =>
        /\ ( /\ useCopyToClipboard.hist.since = "copy"
             /\ now < useCopyToClipboard.hist.copiedAt
                        + clipboardOpts.successDuration )
           => useCopyToClipboard.copied
        /\ ~useCopyToClipboard.hist.stale

\* C19: with leading = true, in both throttle hooks, an update / invoke that
\* is the first ever call of a fresh hook (whatever the clock reads), or
\* that comes when now - lastExecuted >= delay, is emitted in the same
\* step, sets lastExecuted to now and leaves nothing pending: no timer
\* registered, no handle, no stored arguments.
C19_LeadingEmission ==
    /\ [][ ( /\ hook = "useThrottle"
             /\ throttleOpts.leading
             /\ \/ ~useThrottle.mounted /\ useThrottle'.mounted
                \/ /\ useThrottle'.value # useThrottle.value
                   /\ now - useThrottle.lastExecutedRef >= throttleOpts.delay )
           => ( /\ useThrottle'.throttledValue = useThrottle'.value
                /\ throttleHist'.emitAt = now
                /\ throttleHist'.lastKind = "leading"
                /\ useThrottle'.lastExecutedRef = now
                /\ useThrottle'.timers = {}
                /\ ~Truthy(useThrottle'.timeoutRef) ) ]_vars
    /\ [][ ( /\ hook = "useThrottleCallback"
             /\ callbackOpts.leading
             /\ callbackHist'.seq = callbackHist.seq + 1
             /\ \/ callbackHist.seq = 0
                \/ now - useThrottleCallback.lastExecutedRef
                      >= callbackOpts.delay )
           => ( /\ callbackHist'.emitAt = now
                /\ callbackHist'.lastVal = callbackHist'.seq
                /\ callbackHist'.lastKind = "leading"
                /\ useThrottleCallback'.lastExecutedRef = now
                /\ useThrottleCallback'.timers = {}
                /\ ~Truthy(useThrottleCallback'.timeoutRef)
                /\ useThrottleCallback'.pendingArgsRef = 0 ) ]_vars

\* C20: in both throttle hooks every registered trailing timer is due at
\* lastExecuted + delay, or at the time it was registered if that is later
\* (the remaining delay is not negative), and an update / invoke made while
\* it is registered replaces the payload and leaves the due time as it is.
C20_TrailingAnchored ==
    /\ []( hook = "useThrottle" =>
             \A tm \in useThrottle.timers :
                /\ tm.due = Max(throttleHist.pendingAt,
                                useThrottle.lastExecutedRef
                                    + throttleOpts.delay)
                /\ tm.val = useThrottle.value )
    /\ []( hook = "useThrottleCallback" =>
             \A tm \in useThrottleCallback.timers :
                tm.due = Max(callbackHist.pendingAt,
                             useThrottleCallback.lastExecutedRef
                                 + callbackOpts.delay) )
    /\ [][ ( /\ hook = "useThrottle"
             /\ useThrottle.timers # {}
             /\ useThrottle'.value # useThrottle.value )
           => ( /\ Cardinality(useThrottle'.timers) = 1
                /\ \A tm \in useThrottle.timers :
                     \A to \in useThrottle'.timers :
                        to.due = tm.due /\ to.val = useThrottle'.value ) ]_vars
    /\ [][ ( /\ hook = "useThrottleCallback"
             /\ useThrottleCallback.timers # {}
             /\ callbackHist'.seq = callbackHist.seq + 1 )
           => ( /\ Cardinality(useThrottleCallback'.timers) = 1
                /\ \A tm \in useThrottleCallback.timers :
                     \A to \in useThrottleCallback'.timers :
                        to.due = tm.due
                /\ useThrottleCallback'.pendingArgsRef
                      = callbackHist'.seq ) ]_vars

\* useThrottle: an update arrived at least two clock units into the window
\* that an emission opened, after an earlier one in the same window, and the
\* timer is still due at the end of that window.
C20_Witness ==
    /\ hook = "useThrottle"
    /\ throttleOpts.delay > 2
    /\ throttleHist.emitAt >= 0
    /\ throttleHist.seq >= 3
    /\ throttleHist.pendingAt >= useThrottle.lastExecutedRef + 2
    /\ \E tm \in useThrottle.timers :
          tm.due = useThrottle.lastExecutedRef + throttleOpts.delay

\* C21: in useThrottleCallback with leading = true, after cancel() discarded
\* a pending trailing emission the hook is idle with no window open: the
\* next invoke is emitted in the same step as a leading call, even if it
\* comes less than `delay` after the last emission.
C21_CancelReturnsToIdle ==
    [][ ( /\ hook = "useThrottleCallback"
          /\ callbackOpts.leading
          /\ callbackHist.emitAt >= 0
          /\ callbackHist.seq \in callbackHist.cancelled
          /\ ~CallbackPending(useThrottleCallback)
          /\ callbackHist'.seq = callbackHist.seq + 1 )
        => ( /\ callbackHist'.emitAt = now
             /\ callbackHist'.lastVal = callbackHist'.seq
             /\ callbackHist'.lastKind = "leading"
             /\ useThrottleCallback'.lastExecutedRef = now
             /\ ~CallbackPending(useThrottleCallback') ) ]_vars

\* The registered timers of callback `kind`
TimersOf(s, kind) == {tm \in s.timers : tm.kind = kind}

\* C22: in every reachable state useThrottle and useThrottleCallback have at
\* most one trailing timer registered, and useDebounce at most one
\* quiescence timer and at most one max-wait timer; a registered timer is
\* the one the hook holds the handle of, so every earlier one was cleared
\* before the next was registered.
C22_SingleTimer ==
    /\ Cardinality(TimersOf(useThrottle, "trailing")) <= 1
    /\ useThrottle.timers \subseteq {useThrottle.timeoutRef}
    /\ Cardinality(TimersOf(useThrottleCallback, "trailing")) <= 1
    /\ useThrottleCallback.timers \subseteq {useThrottleCallback.timeoutRef}
    /\ Cardinality(TimersOf(useDebounce, "timer")) <= 1
    /\ Cardinality(TimersOf(useDebounce, "maxWait")) <= 1
    /\ useDebounce.timers
          \subseteq {useDebounce.timer, useDebounce.maxWaitTimer}

\* useDebounce, third update of a burst: both of its timers are registered,
\* the earlier updates' timers are not.
C22_Witness ==
    /\ hook = "useDebounce"
    /\ debounceHist.burstN >= 3
    /\ Cardinality(TimersOf(useDebounce, "timer")) = 1
    /\ Cardinality(TimersOf(useDebounce, "maxWait")) = 1
    /\ \A tm \in TimersOf(useDebounce, "timer") :
          tm.due = now + debounceOpts.delay

\* C23: in each of the three hooks a render that changes the options while
\* a timer is registered leaves the registered timers as they are: none is
\* cleared, none is registered, each keeps its due time and its payload, and
\* nothing is emitted by that render.
C23_ConfigNotRetroactive ==
    /\ [][ (hook = "useDebounce" /\ debounceOpts' # debounceOpts
               /\ useDebounce.timers # {})
           => ( /\ useDebounce'.timers = useDebounce.timers
                /\ useDebounce'.debouncedValue = useDebounce.debouncedValue )
         ]_vars
    /\ [][ (hook = "useThrottle" /\ throttleOpts' # throttleOpts
               /\ useThrottle.timers # {})
           => ( /\ useThrottle'.timers = useThrottle.timers
                /\ useThrottle'.throttledValue = useThrottle.throttledValue )
         ]_vars
    /\ [][ (hook = "useThrottleCallback" /\ callbackOpts' # callbackOpts
               /\ useThrottleCallback.timers # {})
           => ( /\ useThrottleCallback'.timers = useThrottleCallback.timers
                /\ callbackHist'.emitAt = callbackHist.emitAt ) ]_vars

\* C24: in useDebounce with maxWait set, the step in which the quiescence
\* timer fires and writes debouncedValue leaves no timer of the hook
\* registered: the max-wait timer of that burst is cleared with it and
\* cannot fire later.
C24_NoStaleMaxWait ==
    [][ ( /\ hook = "useDebounce"
          /\ debounceOpts.maxWait # 0
          /\ useDebounce'.value = useDebounce.value
          /\ debounceHist'.updAt = debounceHist.updAt
          /\ TimersOf(useDebounce, "timer") # {}
          /\ TimersOf(useDebounce', "timer") = {} )
        => useDebounce'.timers = {} ]_vars

\* C25: in both throttle hooks with trailing = false, an update / invoke for
\* which the leading condition does not hold (leading = false, or less than
\* `delay` since the last execution) emits nothing, registers no timer,
\* stores no arguments and leaves the output value, lastExecuted and
\* isThrottled as they are; with leading = false and trailing = false
\* nothing is ever emitted.
C25_DroppedUpdate ==
    /\ [][ ( /\ hook = "useThrottle"
             /\ ~throttleOpts.trailing
             /\ useThrottle.mounted
             /\ useThrottle'.value # useThrottle.value
             /\ \/ ~throttleOpts.leading
                \/ /\ ~useThrottle.isFirstCallRef
                   /\ now - useThrottle.lastExecutedRef < throttleOpts.delay )
           => ( /\ useThrottle'.throttledValue = useThrottle.throttledValue
                /\ useThrottle'.lastExecutedRef = useThrottle.lastExecutedRef
                /\ useThrottle'.timers = {}
                /\ useThrottle'.timeoutRef = useThrottle.timeoutRef
                /\ throttleHist'.emitAt = throttleHist.emitAt
                /\ throttleHist'.emitted = throttleHist.emitted ) ]_vars
    /\ [][ ( /\ hook = "useThrottleCallback"
             /\ ~callbackOpts.trailing
             /\ callbackHist'.seq = callbackHist.seq + 1
             /\ \/ ~callbackOpts.leading
                \/ now - useThrottleCallback.lastExecutedRef
                      < callbackOpts.delay )
           => ( /\ useThrottleCallback' = useThrottleCallback
                /\ useThrottleCallback'.timers = {}
                /\ useThrottleCallback'.pendingArgsRef = 0
                /\ callbackHist'.emitAt = callbackHist.emitAt
                /\ callbackHist'.emitted = callbackHist.emitted ) ]_vars
    /\ []( (hook = "useThrottle" /\ ~throttleOpts.leading
               /\ ~throttleOpts.trailing)
           => throttleHist.emitted = {} /\ throttleHist.emitAt = -1 )
    /\ []( (hook = "useThrottleCallback" /\ ~callbackOpts.leading
               /\ ~callbackOpts.trailing)
           => callbackHist.emitted = {} /\ callbackHist.emitAt = -1 )

\* useThrottleCallback, leading only: the latest invoke came inside the
\* window of an emitted one and was dropped.
C25_Witness ==
    /\ hook = "useThrottleCallback"
    /\ callbackOpts.leading /\ ~callbackOpts.trailing
    /\ callbackHist.seq >= 2
    /\ callbackHist.emitAt >= 0
    /\ now - callbackHist.emitAt < callbackOpts.delay
    /\ 1 \in callbackHist.emitted
    /\ callbackHist.seq \notin callbackHist.emitted
    /\ useThrottleCallback.timers = {}
    /\ ~useThrottleCallback.isThrottled

\* C26: in useThrottleCallback, whether or not the wrapped function threw
\* during a flush() or in the trailing timer's callback, the hook's state is
\* consistent: arguments are stored, a handle is held and isThrottled is
\* true only while the trailing timer of that handle is registered.
C26_ConsistentAfterThrow ==
    hook = "useThrottleCallback" =>
        ( ( \/ useThrottleCallback.pendingArgsRef # 0
            \/ Truthy(useThrottleCallback.timeoutRef)
            \/ useThrottleCallback.isThrottled )
          => CallbackPending(useThrottleCallback) )

\* C27: in useAsync, however the promises of overlapping execute() calls
\* settle, `loading` is true while a call is in flight, `value` and `error`
\* are never both set, and once every call has settled `value` / `error`
\* hold the outcome of the call that started last.
C27_OverlappingCalls ==
    hook = "useAsync" =>
        /\ useAsync.inflight # {} => useAsync.loading
        /\ ~(useAsync.value # 0 /\ useAsync.error # 0)
        /\ (useAsync.inflight = {} /\ useAsync.started > 0)
             => \/ useAsync.value = useAsync.started /\ useAsync.error = 0
                \/ useAsync.error = useAsync.started /\ useAsync.value = 0

====
